---- MODULE Spec2Model ----
(***************************************************************************)
(* Model of src/ayumi/ayumi.py: the Ayumi logging facade.                  *)
(*                                                                         *)
(* One thread runs a severity entry point (notset/debug/info/warning/      *)
(* critical/error), which is _console followed by _publish; the steps of   *)
(* _publish are separate actions, one per read of a class attribute, so    *)
(* that set_pika_channel / set_rabbitpy_channel called from another thread *)
(* interleave with it the way the interpreter allows.                      *)
(*                                                                         *)
(* Strings are sequences of characters (one-character strings, with "ESC"  *)
(* standing for the character \033), so that str.lower, str.format and     *)
(* json.dumps are computed rather than assumed.                            *)
(***************************************************************************)
EXTENDS Integers, Sequences, FiniteSets, TLC

VARIABLES
    pika_channel,       \* Ayumi.pika_channel (class attribute, line 56)
    rabbitpy_channel,   \* Ayumi.rabbitpy_channel (class attribute, line 57)
    PIKA_IMPORTED,      \* _PIKA_IMPORTED, fixed at import time
    RABBITPY_IMPORTED,  \* _RABBITPY_IMPORTED, fixed at import time
    pc,                 \* position of the emitting thread
    entry,              \* name of the entry point being run (its co_name)
    msg,                \* argument msg of the running call
    color,              \* argument color of the running call
    callers,            \* the frames below the entry point on the stack
    bound_channel,      \* the channel whose basic_publish was loaded (line 147)
    message,            \* the rabbitpy.Message built at line 161
    out,                \* what the running call handed to its collaborators
    err,                \* the exception the running call raised, or NoError
    seen,               \* per kind: the values its slot held during the call
    requested,          \* per kind: the argument of the last registration
    lastReg             \* per kind: what the last registration did

vars == <<pika_channel, rabbitpy_channel, PIKA_IMPORTED, RABBITPY_IMPORTED,
          pc, entry, msg, color, callers, bound_channel, message, out, err,
          seen, requested, lastReg>>

-----------------------------------------------------------------------------
(* Bounds of the model *)

NumHandles == 2
MaxMsgLen == 1

-----------------------------------------------------------------------------
(* Values *)

\* Python's None in a channel slot; channel objects are 1..NumHandles.
None == 0
Handles == 1..NumHandles
Channels == Handles \cup {None}

\* bool(channel) as `if cls.pika_channel` evaluates it: None is falsy, a
\* channel object (neither library defines __bool__ or __len__ on it) is truthy.
Truthy(channel) == channel # None

\* The empty string, and Python's None where a string may stand: a one-element
\* sequence whose element is no character of any string of the model.
EmptyStr == << >>
NoneStr == <<"None">>

MsgChars == {"a", "\""}
RECURSIVE StringsUpTo(_)
StringsUpTo(n) ==
    IF n = 0 THEN {EmptyStr}
    ELSE LET shorter == StringsUpTo(n - 1)
         IN  shorter \cup {Append(s, c) : s \in shorter, c \in MsgChars}
Messages == StringsUpTo(MaxMsgLen)

RED == <<"ESC", "[", "3", "1", "m">>
ENDC == <<"ESC", "[", "0", "m">>
Colors == {EmptyStr, RED}

EXCHANGE == <<"l", "o", "g", "s", "-", "g", "a", "t", "e", "w", "a", "y">>

Kinds == {"pika", "rabbitpy"}

-----------------------------------------------------------------------------
(* Entry points and the call stack *)

notset == <<"n", "o", "t", "s", "e", "t">>
debug == <<"d", "e", "b", "u", "g">>
info == <<"i", "n", "f", "o">>
warning == <<"w", "a", "r", "n", "i", "n", "g">>
critical == <<"c", "r", "i", "t", "i", "c", "a", "l">>
error == <<"e", "r", "r", "o", "r">>
EntryPoints == {notset, debug, info, warning, critical, error}

\* The methods of logging.Logger that the entry points' names select.
LoggerMethods == {debug, info, warning, critical, error}

Frame(name, file, hasModule) ==
    [co_name |-> name, file |-> file, hasModule |-> hasModule]

AyumiFile == <<"ayumi", "ayumi.py">>
\* The frames below an entry point: none (the call comes from C, e.g. atexit),
\* a function of a module with a file, or code that no module owns (a REPL,
\* exec'd source).
CallerStacks ==
    { << >>,
      << Frame(<<"b", "u", "i", "l", "d">>, <<"proj", "main.py">>, TRUE) >>,
      << Frame(<<"<", "m", ">">>, <<"<stdin>">>, FALSE) >> }

\* inspect.stack() / currentframe() chains as seen from a helper called by an
\* entry point: innermost frame first.
StackIn(helpers, name, below) ==
    helpers \o << Frame(name, AyumiFile, TRUE) >> \o below

ConsoleFrame == Frame(<<"_", "c", "o", "n", "s", "o", "l", "e">>, AyumiFile, TRUE)
PublishFrame == Frame(<<"_", "p", "u", "b", "l", "i", "s", "h">>, AyumiFile, TRUE)
DetailsFrame == Frame(<<"g", "c", "d">>, AyumiFile, TRUE)

-----------------------------------------------------------------------------
(* Pure helpers *)

\* str.lower(), character by character.
UpperChars == <<"A", "B", "C", "D", "E", "F", "G", "I", "L", "N", "O", "R",
                "S", "T", "U", "W">>
LowerChars == <<"a", "b", "c", "d", "e", "f", "g", "i", "l", "n", "o", "r",
                "s", "t", "u", "w">>
LowerChar(c) ==
    IF \E i \in DOMAIN UpperChars : UpperChars[i] = c
    THEN LowerChars[CHOOSE i \in DOMAIN UpperChars : UpperChars[i] = c]
    ELSE c
Lower(s) == [i \in DOMAIN s |-> LowerChar(s[i])]

\* os.path.basename of a path given as its components; a component is one
\* element of the resulting string.
get_base_filename(file) == << file[Len(file)] >>

\* get_calling_details(level): the frame `level` frames above its own.
get_calling_details(stack, level) ==
    IF Len(stack) < level + 1
    THEN [raised |-> "IndexError", filename |-> EmptyStr, functionname |-> EmptyStr]
    ELSE LET frame == stack[level + 1]
         IN  IF ~frame.hasModule
             THEN [raised |-> "AttributeError", filename |-> EmptyStr,
                   functionname |-> EmptyStr]
             ELSE [raised |-> "", filename |-> get_base_filename(frame.file),
                   functionname |-> frame.co_name]
DetailsLevel == 3

\* _CONSOLE_FORMAT, "[{filename}:{functionname}]: {msg}", as literal pieces and
\* replacement fields, and str.format over it.
Lit(s) == [field |-> "", lit |-> s]
Field(f) == [field |-> f, lit |-> EmptyStr]
CONSOLE_FORMAT ==
    << Lit(<<"[">>), Field("filename"), Lit(<<":">>), Field("functionname"),
       Lit(<<"]", ":", " ">>), Field("msg") >>
RECURSIVE Format(_, _)
Format(template, args) ==
    IF template = << >> THEN EmptyStr
    ELSE LET piece == Head(template)
         IN  (IF piece.field = "" THEN piece.lit ELSE args[piece.field])
             \o Format(Tail(template), args)

\* The string _console hands to the logger method: "{}{}{}".format(color,
\* rendered, _ENDC).
ConsoleText(c, filename, functionname, m) ==
    c \o Format(CONSOLE_FORMAT,
                [filename |-> filename, functionname |-> functionname, msg |-> m])
      \o ENDC

\* `if not color: color = None` (lines 142-143); the first definition is the
\* helper without that conversion.
NormalizeColorIdentity(c) == c
NormalizeColor(c) == IF c = EmptyStr THEN NoneStr ELSE c

\* json.dumps of {"body": ..., "color": ...} with its default separators and
\* ensure_ascii: the quote is escaped, ESC becomes \u001b, None becomes null.
JsonEscapeChar(c) ==
    IF c = "\"" THEN <<"\\", "\"">>
    ELSE IF c = "\\" THEN <<"\\", "\\">>
    ELSE IF c = "ESC" THEN <<"\\", "u", "0", "0", "1", "b">>
    ELSE <<c>>
RECURSIVE JsonEscape(_)
JsonEscape(s) ==
    IF s = << >> THEN << >> ELSE JsonEscapeChar(Head(s)) \o JsonEscape(Tail(s))
JsonString(s) == <<"\"">> \o JsonEscape(s) \o <<"\"">>
JsonValue(v) == IF v = NoneStr THEN <<"n", "u", "l", "l">> ELSE JsonString(v)
dumps(d) ==
    <<"{">> \o JsonString(<<"b", "o", "d", "y">>) \o <<":", " ">> \o JsonValue(d.body)
    \o <<",", " ">>
    \o JsonString(<<"c", "o", "l", "o", "r">>) \o <<":", " ">> \o JsonValue(d.color)
    \o <<"}">>

\* The body both branches of _publish build (lines 148 and 163).
Body(m, c) == dumps([body |-> m, color |-> NormalizeColor(c)])

\* currentframe().f_back.f_code.co_name: the name of the caller of the helper
\* whose frame is innermost on `stack`.
CallerNameOwnFrame(stack) == stack[1].co_name
CallerName(stack) == stack[2].co_name

\* routing_key=currentframe().f_back.f_code.co_name.lower() (lines 150, 170);
\* the first definition takes the name from the helper's own frame instead.
RoutingKeyOwnFrame(stack) == Lower(CallerNameOwnFrame(stack))
RoutingKey(stack) == Lower(CallerName(stack))

\* Ayumi.get_headers(): the user and host of the process.
get_headers == [user |-> <<"u">>, host |-> <<"h">>]

\* The properties both branches attach (lines 151-156 and 164-169); the
\* timestamp, int(time()), is left out of the state.
DeliveryMode == 2
Properties ==
    [content_type |-> "application/json", delivery_mode |-> DeliveryMode,
     headers |-> get_headers]

-----------------------------------------------------------------------------
(* State *)

NoError == ""
NoMessage == [channel |-> None, body |-> EmptyStr]
Running == {"console", "pika_check", "pika_load", "pika_publish",
            "rabbitpy_check", "rabbitpy_message", "rabbitpy_publish"}
Finished == {"returned", "raised"}

Slot(k) == IF k = "pika" THEN pika_channel ELSE rabbitpy_channel

\* What a registration call did to a slot.
Transition(old, new) ==
    IF new = old THEN "same"
    ELSE IF old = None THEN "attach"
    ELSE IF new = None THEN "detach"
    ELSE "overwrite"

\* A channel object of a client library exists only where that library could
\* be imported; None can always be passed.
ChannelArgs(imported) == IF imported THEN Channels ELSE {None}

Init ==
    /\ pika_channel = None
    /\ rabbitpy_channel = None
    /\ PIKA_IMPORTED \in BOOLEAN
    /\ RABBITPY_IMPORTED \in BOOLEAN
    /\ pc = "idle"
    /\ entry = info
    /\ msg = EmptyStr
    /\ color = EmptyStr
    /\ callers = << >>
    /\ bound_channel = None
    /\ message = NoMessage
    /\ out = << >>
    /\ err = NoError
    /\ seen = [k \in Kinds |-> {None}]
    /\ requested = [k \in Kinds |-> None]
    /\ lastReg = [k \in Kinds |-> "none"]

-----------------------------------------------------------------------------
(* Registration: set_pika_channel, set_rabbitpy_channel *)

\* The bookkeeping of a registration call for kind k with argument `channel`.
Registered(k, channel) ==
    /\ requested' = [requested EXCEPT ![k] = channel]
    /\ lastReg' = [lastReg EXCEPT ![k] = Transition(Slot(k), channel)]
    /\ seen' = IF pc \in Running
               THEN [seen EXCEPT ![k] = @ \cup {Slot(k)'}]
               ELSE seen

\* set_pika_channel keeping a channel that is already attached.
SetPikaChannelFirstWins(channel) ==
    /\ pika_channel' = IF pika_channel = None THEN channel ELSE pika_channel
    /\ Registered("pika", channel)
    /\ UNCHANGED <<rabbitpy_channel, PIKA_IMPORTED, RABBITPY_IMPORTED, pc, entry,
                   msg, color, callers, bound_channel, message, out, err>>

\* set_pika_channel assigning both class attributes.
SetPikaChannelBoth(channel) ==
    /\ pika_channel' = channel
    /\ rabbitpy_channel' = IF RABBITPY_IMPORTED THEN channel ELSE rabbitpy_channel
    /\ Registered("pika", channel)
    /\ UNCHANGED <<PIKA_IMPORTED, RABBITPY_IMPORTED, pc, entry,
                   msg, color, callers, bound_channel, message, out, err>>

\* set_pika_channel (lines 85-87).
SetPikaChannel(channel) ==
    /\ pika_channel' = channel
    /\ Registered("pika", channel)
    /\ UNCHANGED <<rabbitpy_channel, PIKA_IMPORTED, RABBITPY_IMPORTED, pc, entry,
                   msg, color, callers, bound_channel, message, out, err>>

\* set_rabbitpy_channel (lines 89-91).
SetRabbitpyChannel(channel) ==
    /\ rabbitpy_channel' = channel
    /\ Registered("rabbitpy", channel)
    /\ UNCHANGED <<pika_channel, PIKA_IMPORTED, RABBITPY_IMPORTED, pc, entry,
                   msg, color, callers, bound_channel, message, out, err>>

-----------------------------------------------------------------------------
(* Emission: the entry points, _console and _publish *)

\* A caller invokes Ayumi.<name>(m, c): the call starts, nothing is done yet.
EmitCall(name, m, c, below) ==
    /\ pc = "idle"
    /\ pc' = "console"
    /\ entry' = name
    /\ msg' = m
    /\ color' = c
    /\ callers' = below
    /\ out' = << >>
    /\ err' = NoError
    /\ seen' = [k \in Kinds |-> {Slot(k)}]
    /\ UNCHANGED <<pika_channel, rabbitpy_channel, PIKA_IMPORTED,
                   RABBITPY_IMPORTED, bound_channel, message, requested, lastReg>>

\* The entry point's body, `cls._console(...)` then `cls._publish(...)`: an
\* exception of _console leaves the entry point, otherwise _publish starts.
\* The first definition is an entry point that goes on to _publish regardless.
AfterConsoleSwallow(raised) == "pika_check"
AfterConsole(raised) == IF raised THEN "raised" ELSE "pika_check"

\* _console (lines 127-136).
Console ==
    /\ pc = "console"
    /\ LET details == get_calling_details(
                          StackIn(<<DetailsFrame, ConsoleFrame>>, entry, callers),
                          DetailsLevel)
           method == CallerName(StackIn(<<ConsoleFrame>>, entry, callers))
       IN  IF details.raised # ""
           THEN /\ err' = details.raised \o ": get_calling_details"
                /\ out' = out
                /\ pc' = AfterConsole(TRUE)
           ELSE IF method \notin LoggerMethods
           THEN /\ err' = "AttributeError: logger has no such method"
                /\ out' = out
                /\ pc' = AfterConsole(TRUE)
           ELSE /\ err' = err
                /\ out' = Append(out,
                       [op |-> "console", method |-> method,
                        text |-> ConsoleText(color, details.filename,
                                             details.functionname, msg)])
                /\ pc' = AfterConsole(FALSE)
    /\ UNCHANGED <<pika_channel, rabbitpy_channel, PIKA_IMPORTED,
                   RABBITPY_IMPORTED, entry, msg, color, callers, bound_channel,
                   message, seen, requested, lastReg>>

\* `if _PIKA_IMPORTED and cls.pika_channel` (line 146); the first definition
\* leaves the channel out of the test.
PikaPresentUnchecked == PIKA_IMPORTED
PikaPresent == PIKA_IMPORTED /\ Truthy(pika_channel)

PikaCheck ==
    /\ pc = "pika_check"
    /\ pc' = IF PikaPresent THEN "pika_load" ELSE "rabbitpy_check"
    /\ UNCHANGED <<pika_channel, rabbitpy_channel, PIKA_IMPORTED,
                   RABBITPY_IMPORTED, entry, msg, color, callers, bound_channel,
                   message, out, err, seen, requested, lastReg>>

\* `cls.pika_channel.basic_publish` (line 147): the slot is read again and the
\* method is looked up on what it holds now.
PikaLoad ==
    /\ pc = "pika_load"
    /\ IF pika_channel = None
       THEN /\ err' = "AttributeError: pika_channel is None"
            /\ pc' = "raised"
            /\ bound_channel' = bound_channel
       ELSE /\ err' = err
            /\ pc' = "pika_publish"
            /\ bound_channel' = pika_channel
    /\ UNCHANGED <<pika_channel, rabbitpy_channel, PIKA_IMPORTED,
                   RABBITPY_IMPORTED, entry, msg, color, callers, message, out,
                   seen, requested, lastReg>>

\* A publish call reaching a channel: it is recorded whether or not the
\* broker client then raises. The first definition sends it twice.
DeliverTwice(log, ev) == Append(Append(log, ev), ev)
Deliver(log, ev) == Append(log, ev)

PublishEvent(k, channel, ok) ==
    [op |-> "publish", kind |-> k, channel |-> channel, exchange |-> EXCHANGE,
     routing_key |-> RoutingKey(StackIn(<<PublishFrame>>, entry, callers)),
     body |-> Body(msg, color), properties |-> Properties, ok |-> ok]

\* The call of basic_publish (lines 147-157); the broker client may raise.
PikaPublish ==
    /\ pc = "pika_publish"
    /\ \E ok \in BOOLEAN :
          /\ out' = Deliver(out, PublishEvent("pika", bound_channel, ok))
          /\ pc' = IF ok THEN "rabbitpy_check" ELSE "raised"
          /\ err' = IF ok THEN err ELSE "PublishFailure: pika"
    /\ bound_channel' = None
    /\ UNCHANGED <<pika_channel, rabbitpy_channel, PIKA_IMPORTED,
                   RABBITPY_IMPORTED, entry, msg, color, callers, message,
                   seen, requested, lastReg>>

\* `if _RABBITPY_IMPORTED and cls.rabbitpy_channel` (line 160).
RabbitpyPresent == RABBITPY_IMPORTED /\ Truthy(rabbitpy_channel)

RabbitpyCheck ==
    /\ pc = "rabbitpy_check"
    /\ pc' = IF RabbitpyPresent THEN "rabbitpy_message" ELSE "returned"
    /\ UNCHANGED <<pika_channel, rabbitpy_channel, PIKA_IMPORTED,
                   RABBITPY_IMPORTED, entry, msg, color, callers, bound_channel,
                   message, out, err, seen, requested, lastReg>>

\* rabbitpy.Message(cls.rabbitpy_channel, ...) (lines 161-169): the slot is
\* read again and whatever it holds now becomes the message's channel.
RabbitpyMessage ==
    /\ pc = "rabbitpy_message"
    /\ message' = [channel |-> rabbitpy_channel, body |-> Body(msg, color)]
    /\ pc' = "rabbitpy_publish"
    /\ UNCHANGED <<pika_channel, rabbitpy_channel, PIKA_IMPORTED,
                   RABBITPY_IMPORTED, entry, msg, color, callers, bound_channel,
                   out, err, seen, requested, lastReg>>

\* message.publish(_EXCHANGE, routing key) (line 170): the message writes to
\* its channel; with None for a channel that is an AttributeError.
RabbitpyPublish ==
    /\ pc = "rabbitpy_publish"
    /\ IF message.channel = None
       THEN /\ err' = "AttributeError: message channel is None"
            /\ pc' = "raised"
            /\ out' = out
       ELSE \E ok \in BOOLEAN :
               /\ out' = Deliver(out, PublishEvent("rabbitpy", message.channel, ok))
               /\ pc' = IF ok THEN "returned" ELSE "raised"
               /\ err' = IF ok THEN err ELSE "PublishFailure: rabbitpy"
    /\ message' = NoMessage
    /\ UNCHANGED <<pika_channel, rabbitpy_channel, PIKA_IMPORTED,
                   RABBITPY_IMPORTED, entry, msg, color, callers, bound_channel,
                   seen, requested, lastReg>>

\* The entry point returns or raises to its caller: the frames of the call
\* are gone and the caller goes on.
Return ==
    /\ pc \in Finished
    /\ pc' = "idle"
    /\ entry' = info
    /\ msg' = EmptyStr
    /\ color' = EmptyStr
    /\ callers' = << >>
    /\ out' = << >>
    /\ err' = NoError
    /\ seen' = [k \in Kinds |-> {None}]
    /\ UNCHANGED <<pika_channel, rabbitpy_channel, PIKA_IMPORTED,
                   RABBITPY_IMPORTED, bound_channel, message, requested, lastReg>>

-----------------------------------------------------------------------------
(* Specification *)

\* The steps of the thread that emits.
Emit ==
    \/ Console
    \/ PikaCheck
    \/ PikaLoad
    \/ PikaPublish
    \/ RabbitpyCheck
    \/ RabbitpyMessage
    \/ RabbitpyPublish
    \/ Return

\* A single-threaded program: registration calls and emissions alternate, with
\* every message, color, entry point and caller.
Next ==
    \/ /\ pc = "idle"
       /\ \E channel \in ChannelArgs(PIKA_IMPORTED) : SetPikaChannel(channel)
    \/ /\ pc = "idle"
       /\ \E channel \in ChannelArgs(RABBITPY_IMPORTED) : SetRabbitpyChannel(channel)
    \/ \E name \in EntryPoints, m \in Messages, c \in Colors,
          below \in CallerStacks : EmitCall(name, m, c, below)
    \/ Emit

Spec == Init /\ [][Next]_vars

\* A second thread registers while the first emits. The interleavings do not
\* depend on the text emitted nor on who calls, so one message, one color and
\* one caller are enough here, with two entry points: notset, whose console
\* step raises, and info, whose console step succeeds as that of the other four.
ThreadEntryPoints == {notset, info}
ThreadMessage == <<"a">>
ThreadCaller == << Frame(<<"b", "u", "i", "l", "d">>, <<"proj", "main.py">>, TRUE) >>
NextThreads ==
    \/ \E channel \in ChannelArgs(PIKA_IMPORTED) : SetPikaChannel(channel)
    \/ \E channel \in ChannelArgs(RABBITPY_IMPORTED) : SetRabbitpyChannel(channel)
    \/ \E name \in ThreadEntryPoints :
          EmitCall(name, ThreadMessage, RED, ThreadCaller)
    \/ Emit

SpecThreads == Init /\ [][NextThreads]_vars

-----------------------------------------------------------------------------
(* What a call has done so far *)

PublishesOf(k) == {i \in DOMAIN out : out[i].op = "publish" /\ out[i].kind = k}
Publishes == PublishesOf("pika") \cup PublishesOf("rabbitpy")
ConsoleWrites == {i \in DOMAIN out : out[i].op = "console"}

\* The exceptions _console raises, and those of a publish on a None channel.
ConsoleErrors ==
    {"IndexError: get_calling_details", "AttributeError: get_calling_details",
     "AttributeError: logger has no such method"}
AbsentError(k) ==
    IF k = "pika" THEN "AttributeError: pika_channel is None"
    ELSE "AttributeError: message channel is None"

\* The positions at which _publish is dealing with kind k's channel.
PublishSteps(k) ==
    IF k = "pika" THEN {"pika_load", "pika_publish"}
    ELSE {"rabbitpy_message", "rabbitpy_publish"}
InPublish == {"pika_check", "pika_load", "pika_publish", "rabbitpy_check",
              "rabbitpy_message", "rabbitpy_publish"}

\* json.loads of a body built by dumps: a function from keys to values.
HexEscape(t, i) ==
    IF <<t[i + 2], t[i + 3], t[i + 4], t[i + 5]>> = <<"0", "0", "1", "b">>
    THEN "ESC" ELSE "?"
RECURSIVE ParseChars(_, _, _)
ParseChars(t, i, acc) ==
    IF t[i] = "\"" THEN [value |-> acc, next |-> i + 1]
    ELSE IF t[i] = "\\"
    THEN IF t[i + 1] = "u"
         THEN ParseChars(t, i + 6, Append(acc, HexEscape(t, i)))
         ELSE ParseChars(t, i + 2, Append(acc, t[i + 1]))
    ELSE ParseChars(t, i + 1, Append(acc, t[i]))
ParseValue(t, i) ==
    IF t[i] = "n" THEN [value |-> NoneStr, next |-> i + 4]
    ELSE ParseChars(t, i + 1, << >>)
loads(t) ==
    LET k1 == ParseChars(t, 3, << >>)
        v1 == ParseValue(t, k1.next + 2)
        k2 == ParseChars(t, v1.next + 3, << >>)
        v2 == ParseValue(t, k2.next + 2)
    IN  [k \in {k1.value, k2.value} |-> IF k = k1.value THEN v1.value ELSE v2.value]

-----------------------------------------------------------------------------
(* Claims *)

\* C1: within a call of an entry point every publish comes after the console
\* write of that call, _publish is entered only once that write is done, and a
\* call whose console step raised attempts no publish.
C1_ConsoleBeforePublish ==
    /\ \A i \in Publishes : \E j \in ConsoleWrites : j < i
    /\ pc \in InPublish => ConsoleWrites # {}
    /\ err \in ConsoleErrors => Publishes = {} /\ pc = "raised"
    /\ pc \in Finished /\ ConsoleWrites = {} => err \in ConsoleErrors

C1_Witness ==
    /\ pc = "returned"
    /\ out # << >>
    /\ out[1].op = "console"
    /\ PublishesOf("pika") # {}
    /\ PublishesOf("rabbitpy") # {}

\* C2: a call during which the slot of a kind held no channel never reaches the
\* publish of that kind and never raises because the channel is missing, and
\* by the time it skips that kind its console write is done; with no channel of
\* either kind the call can only fail in its console step.
C2_AbsentKindSkipped ==
    /\ \A k \in Kinds :
          seen[k] = {None} =>
             /\ PublishesOf(k) = {}
             /\ pc \notin PublishSteps(k)
             /\ err # AbsentError(k)
             /\ pc \in InPublish \cup {"returned"} => ConsoleWrites # {}
    /\ (\A k \in Kinds : seen[k] = {None}) /\ pc = "raised" => err \in ConsoleErrors

C2_Witness ==
    /\ pc = "returned"
    /\ PIKA_IMPORTED
    /\ seen["pika"] = {None}
    /\ seen["rabbitpy"] # {None}
    /\ ConsoleWrites # {}
    /\ PublishesOf("pika") = {}
    /\ PublishesOf("rabbitpy") # {}

\* C3: a publish made by a call during which the slot of its kind did not
\* change goes to the channel passed to the last registration call for that
\* kind: after an overwrite the new channel, after a detach none at all.
PublishStep(k) ==
    /\ Len(out') = Len(out) + 1
    /\ out'[Len(out')].op = "publish"
    /\ out'[Len(out')].kind = k
C3_PublishToLastRegistered ==
    [][\A k \in Kinds :
          PublishStep(k) /\ Cardinality(seen[k]) = 1
             => out'[Len(out')].channel = requested[k]]_vars

C3_Witness ==
    /\ pc = "rabbitpy_check"
    /\ lastReg["pika"] = "overwrite"
    /\ seen["pika"] = {pika_channel}
    /\ \E i \in PublishesOf("pika") : out[i].channel = requested["pika"]

C5_EachAttachedKindAttempted ==
    pc \in Finished /\ err \notin ConsoleErrors =>
       \A k \in Kinds : Truthy(Slot(k)) => PublishesOf(k) # {}

\* C6: every publish of a call carries as its routing key the lower-cased name
\* of the entry point that was called, and different entry points have
\* different keys.
RoutingKeys == {Lower(e) : e \in EntryPoints}
C6_RoutingKeyIsSeverity ==
    /\ \A i \in Publishes : out[i].routing_key = Lower(entry)
    /\ Cardinality(RoutingKeys) = Cardinality(EntryPoints)

C6_Witness ==
    /\ pc = "returned"
    /\ entry = warning
    /\ \E i \in PublishesOf("pika") : out[i].routing_key = warning
    /\ \E i \in PublishesOf("rabbitpy") : out[i].routing_key = warning

\* C7: the body of every publish parses as JSON to {body: msg, color: color},
\* with null for the color when the color passed is the empty string.
ExpectedBody ==
    [k \in {<<"b", "o", "d", "y">>, <<"c", "o", "l", "o", "r">>} |->
        IF k = <<"b", "o", "d", "y">> THEN msg
        ELSE IF color = EmptyStr THEN NoneStr ELSE color]
C7_BodyRoundTrips ==
    \A i \in Publishes : loads(out[i].body) = ExpectedBody

C7_Witness ==
    /\ pc = "returned"
    /\ color = EmptyStr
    /\ msg = <<"\"">>
    /\ PublishesOf("pika") # {}
    /\ PublishesOf("rabbitpy") # {}

\* C8: with the empty string for a color, the text handed to the logger is the
\* template rendered with the caller's file and function and the message, with
\* no escape sequence before or after it.
Rendered ==
    Format(CONSOLE_FORMAT,
           [filename |-> get_base_filename(callers[1].file),
            functionname |-> callers[1].co_name, msg |-> msg])
C8_NoWrappingWithoutColor ==
    \A i \in ConsoleWrites : color = EmptyStr => out[i].text = Rendered

\* C9: whatever registration calls interleave with a call, the call never
\* fails on a channel that is None, and every publish it makes goes to a
\* channel its slot held at some moment of the call.
C9_EmitSafeUnderRegistration ==
    /\ \A k \in Kinds : err # AbsentError(k)
    /\ \A k \in Kinds : \A i \in PublishesOf(k) : out[i].channel \in seen[k]

\* C10: no step of an emitting call changes a slot, and a registration call
\* for one kind leaves the slot of the other kind as it was.
C10_RegistryFrame ==
    [][/\ pc' # pc => UNCHANGED <<pika_channel, rabbitpy_channel>>
       /\ pika_channel' # pika_channel => rabbitpy_channel' = rabbitpy_channel
       /\ rabbitpy_channel' # rabbitpy_channel => pika_channel' = pika_channel]_vars

C10_Witness ==
    /\ pc = "raised"
    /\ err = "PublishFailure: pika"
    /\ seen["pika"] = {pika_channel}
    /\ seen["rabbitpy"] = {rabbitpy_channel}
    /\ Truthy(pika_channel)
    /\ Truthy(rabbitpy_channel)
    /\ pika_channel # rabbitpy_channel

====
